---- MODULE Spec2Model ----
(***************************************************************************)
(* A model of the rope skip list (package rope): the node heap, the        *)
(* identifier index, the splice engine, the queries and the pausable       *)
(* iterator.  Nodes are heap cells named by addresses; the head is the     *)
(* cell at address Head.  Level i of the source (0-based) is element i+1   *)
(* of a node's levels sequence.                                            *)
(***************************************************************************)
EXTENDS Integers, Sequences, FiniteSets, TLC

\* ------------------------------------------------------------------ bounds
\* non-zero identifiers callers use are 1..MaxId when iterators run as well
MaxId == 2
\* and 1..MaxSeqId when only Splice, Insert and Delete are called
MaxSeqId == 3
\* randomHeight draws are taken from 1..MaxDraw (capped at maxHeight)
MaxDraw == 2
\* number of iterators alive at once
NumIters == 1

\* ------------------------------------------------------- program constants
poolSize == 8
maxHeight == 32

\* --------------------------------------------------------------- universes
zeroId == 0
Ids == 0..MaxId
SeqIds == 0..MaxSeqId
AllIds == Ids \cup SeqIds
\* a nil *Id argument
NoId == -1
\* a nil pointer
NIL == -1
HeadAddr == 0
\* ids enough to fill the pool and go on removing
PoolIds == 0..(poolSize + 2)
\* heap cells: the head and the nodes that can be referenced at once
MaxNodes == poolSize + 2 + NumIters
\* the nodes the calls of SpecTwo may have in use between them
NodeBudget == Cardinality(AllIds) + NumIters
Addr == 0..MaxNodes

\* payload values of type T: "nil" is the zero value and has no Len method,
\* "s1" and "s2" are Sizers of length 1 and 2, "neg" is a Sizer whose Len is -1
ZeroData == "nil"
Payloads == {"nil", "s1", "s2", "neg"}

IsSizer(data) == data # "nil"

SizerLen(data) ==
  CASE data = "s1" -> 1
    [] data = "s2" -> 2
    [] data = "neg" -> 0 - 1
    [] OTHER -> 0

ErrNil == "nil"
ErrBadAnchor == "invalid anchor id"
ErrIdExists == "id already exists"
ErrNegativeLength == "length must be positive"

\* randomHeight: every height in [1, maxHeight] the draw can give, within MaxDraw
Heights == 1..(IF MaxDraw < maxHeight THEN MaxDraw ELSE maxHeight)

\* ------------------------------------------------------------------- types
NoRef == [count |-> 0, node |-> NIL]
ZeroLevel == [next |-> NIL, prev |-> NIL, subtreesize |-> 0]
ZeroDataLen == [Len |-> 0, Data |-> ZeroData]
\* a heap cell nothing references
FreeNode == [id |-> zeroId, dl |-> ZeroDataLen, levels |-> <<>>, iterRef |-> NoRef]

VARIABLES
  nodes,     \* the heap: address -> ropeNode
  byId,      \* r.byId: live id -> address
  len,       \* r.len
  height,    \* r.height
  nodePool,  \* r.nodePool: sequence of addresses
  lastId,    \* r.lastId
  iters,     \* the iterators: position in Iter's loop, the node e they hold, the last pair yielded
  obs        \* per iterator, what an observer of the sequence knows (history, not program state)

vars == <<nodes, byId, len, height, nodePool, lastId, iters, obs>>

\* the ropeImpl as one value
Rope == [nodes |-> nodes, byId |-> byId, len |-> len, height |-> height,
         nodePool |-> nodePool, lastId |-> lastId]

\* ------------------------------------------------------------ splice: seek
ZeroSeek == [node |-> NIL, sub |-> 0]

\* the upward walk that fills seek[0..height-1] from the anchor
RECURSIVE SeekFrom(_, _, _, _)
SeekFrom(R, seek, cseek, i) ==
  LET nl == Len(R.nodes[cseek.node].levels)
      seek1 == [j \in 1..R.height |-> IF i < j /\ j <= nl THEN cseek ELSE seek[j]]
      i1 == IF i < nl THEN nl ELSE i
  IN IF cseek.node = HeadAddr \/ i1 = R.height
       THEN [seek |-> seek1, cseek |-> cseek, i |-> i1]
       ELSE LET link == i1 - 1
                prev == R.nodes[cseek.node].levels[link + 1].prev
            IN SeekFrom(R, seek1,
                        [node |-> prev,
                         sub |-> cseek.sub + R.nodes[prev].levels[link + 1].subtreesize],
                        i1)

SeekPhase(R, after) ==
  SeekFrom(R, [j \in 1..R.height |-> ZeroSeek],
           [node |-> after, sub |-> R.nodes[after].dl.Len], 0)

\* ---------------------------------------------------------- splice: delete
\* DeleteLevel that unlinks e without folding its subtreesize into the predecessor's
DeleteLevel_KeepsSize(ns, seek, e, j) ==
  LET node == seek[j + 1].node
  IN IF j >= Len(ns[e].levels)
       THEN [ns EXCEPT ![node].levels[j + 1].subtreesize = @ - ns[e].dl.Len]
       ELSE LET el == ns[e].levels[j + 1]
                next == el.next
                ns2 == IF next # NIL
                         THEN [ns EXCEPT ![next].levels[j + 1].prev = node]
                         ELSE ns
            IN [ns2 EXCEPT ![node].levels[j + 1].next = next]

\* one round j of the per-level unlink loop for the node e being removed
DeleteLevel(ns, seek, e, j) ==
  LET node == seek[j + 1].node
  IN IF j >= Len(ns[e].levels)
       THEN [ns EXCEPT ![node].levels[j + 1].subtreesize = @ - ns[e].dl.Len]
       ELSE LET el == ns[e].levels[j + 1]
                next == el.next
                ns1 == [ns EXCEPT ![node].levels[j + 1].subtreesize =
                                     @ + el.subtreesize - ns[e].dl.Len]
                ns2 == IF next # NIL
                         THEN [ns1 EXCEPT ![next].levels[j + 1].prev = node]
                         ELSE ns1
            IN [ns2 EXCEPT ![node].levels[j + 1].next = next]

RECURSIVE DeleteLevels(_, _, _, _, _)
DeleteLevels(ns, seek, e, j, h) ==
  IF j >= h THEN ns ELSE DeleteLevels(DeleteLevel(ns, seek, e, j), seek, e, j + 1, h)

\* a delete that leaves the cursor of the removed node where it was
Retarget_None(ns, e) == ns

\* if e.iterRef != nil { e.iterRef.node = e.levels[0].prev }
Retarget(ns, e) ==
  IF ns[e].iterRef # NoRef
    THEN [ns EXCEPT ![e].iterRef.node = ns[e].levels[1].prev]
    ELSE ns

\* a returnToPool that does not look for a cursor
returnToPool_IgnoresCursor(R, e) ==
  IF Len(R.nodePool) = poolSize
    THEN R
    ELSE [R EXCEPT !.nodes[e].levels = [i \in 1..Len(R.nodes[e].levels) |-> ZeroLevel],
                   !.nodes[e].dl = ZeroDataLen,
                   !.nodes[e].id = zeroId,
                   !.nodePool = Append(R.nodePool, e)]

returnToPool(R, e) ==
  IF Len(R.nodePool) = poolSize \/ R.nodes[e].iterRef # NoRef
    THEN R
    ELSE [R EXCEPT !.nodes[e].levels = [i \in 1..Len(R.nodes[e].levels) |-> ZeroLevel],
                   !.nodes[e].dl = ZeroDataLen,
                   !.nodes[e].id = zeroId,
                   !.nodePool = Append(R.nodePool, e)]

\* DeleteStep that leaves the removed id in r.byId
DeleteStep_KeepsIndex(R, seek, e) ==
  LET ns1 == Retarget(R.nodes, e)
      R1 == [R EXCEPT !.nodes = DeleteLevels(ns1, seek, e, 0, R.height),
                      !.len = R.len - R.nodes[e].dl.Len]
  IN returnToPool(R1, e)

\* DeleteStep that leaves r.len as it was
DeleteStep_KeepsLen(R, seek, e) ==
  LET ns1 == Retarget(R.nodes, e)
      R1 == [R EXCEPT !.nodes = DeleteLevels(ns1, seek, e, 0, R.height),
                      !.byId = [x \in (DOMAIN R.byId) \ {R.nodes[e].id} |-> R.byId[x]]]
  IN returnToPool(R1, e)

\* the body of the delete loop for the successor e of the anchor
DeleteStep(R, seek, e) ==
  LET ns1 == Retarget(R.nodes, e)
      R1 == [R EXCEPT !.nodes = DeleteLevels(ns1, seek, e, 0, R.height),
                      !.byId = [x \in (DOMAIN R.byId) \ {R.nodes[e].id} |-> R.byId[x]],
                      !.len = R.len - R.nodes[e].dl.Len]
  IN returnToPool(R1, e)

\* a delete loop that leaves r.lastId alone when it runs off the end
RECURSIVE DeleteLoop_EndKeepsLastId(_, _, _, _, _)
DeleteLoop_EndKeepsLastId(R, after, seek, deleteUntil, rem) ==
  LET e == R.nodes[after].levels[1].next
  IN IF e = NIL
       THEN [R |-> R, removed |-> rem]
       ELSE LET deletedId == R.nodes[e].id
                rec == [Id |-> R.nodes[e].id, Len |-> R.nodes[e].dl.Len,
                        Data |-> R.nodes[e].dl.Data]
                R1 == DeleteStep(R, seek, e)
            IN IF deletedId = deleteUntil
                 THEN [R |-> R1, removed |-> Append(rem, rec)]
                 ELSE DeleteLoop_EndKeepsLastId(R1, after, seek, deleteUntil,
                                                Append(rem, rec))

RECURSIVE DeleteLoop(_, _, _, _, _)
DeleteLoop(R, after, seek, deleteUntil, rem) ==
  LET e == R.nodes[after].levels[1].next
  IN IF e = NIL
       THEN [R |-> [R EXCEPT !.lastId = R.nodes[after].id], removed |-> rem]
       ELSE LET deletedId == R.nodes[e].id
                rec == [Id |-> R.nodes[e].id, Len |-> R.nodes[e].dl.Len,
                        Data |-> R.nodes[e].dl.Data]
                R1 == DeleteStep(R, seek, e)
            IN IF deletedId = deleteUntil
                 THEN [R |-> R1, removed |-> Append(rem, rec)]
                 ELSE DeleteLoop(R1, after, seek, deleteUntil, Append(rem, rec))

DeletePhase(R, after, seek, deleteUntil) ==
  LET d == DeleteLoop(R, after, seek, deleteUntil, <<>>)
  IN IF d.R.lastId \notin DOMAIN d.R.byId
       THEN [d EXCEPT !.R.lastId = d.R.nodes[after].id]
       ELSE d

\* ---------------------------------------------------------- splice: insert
\* cells of the heap that hold no node: a fresh allocation takes one of them
FreeAddrs(R) == {a \in Addr \ {HeadAddr} : R.nodes[a].levels = <<>>}

\* &ropeNode{...}: a cell no pointer refers to (which one is not observable)
NewAddr(R) ==
  IF FreeAddrs(R) = {} THEN NIL
  ELSE CHOOSE a \in FreeAddrs(R) : \A b \in FreeAddrs(R) : a <= b

\* the node to hold the new entry, with id, dl and a levels slice of the drawn height
TakeNode(R, insertId, length, data, h) ==
  LET fresh == [id |-> insertId, dl |-> [Len |-> length, Data |-> data],
                levels |-> [i \in 1..h |-> ZeroLevel], iterRef |-> NoRef]
  IN IF Len(R.nodePool) > 0
       THEN LET idx == Len(R.nodePool)
                a == R.nodePool[idx]
            IN [R |-> [R EXCEPT !.nodePool = SubSeq(R.nodePool, 1, idx - 1),
                                !.nodes[a].id = insertId,
                                !.nodes[a].dl = [Len |-> length, Data |-> data],
                                !.nodes[a].levels = [i \in 1..h |-> ZeroLevel]],
                newNode |-> a]
       ELSE LET a == NewAddr(R)
            IN [R |-> [R EXCEPT !.nodes[a] = fresh], newNode |-> a]

\* for cseek.node != &r.head { step to prev at link, add its subtreesize }
RECURSIVE WalkToHead(_, _, _)
WalkToHead(ns, cseek, link) ==
  IF cseek.node = HeadAddr THEN cseek
  ELSE LET p == ns[cseek.node].levels[link + 1].prev
       IN WalkToHead(ns, [node |-> p, sub |-> cseek.sub + ns[p].levels[link + 1].subtreesize],
                     link)

\* LinkLevel with the new node's subtreesize taken as its own length only
LinkLevel_OwnLenOnly(R, seek, newNode, length, i) ==
  LET n == seek[i + 1].node
      nl == R.nodes[n].levels[i + 1]
      next == nl.next
      st == seek[i + 1].sub
      ns1 == IF next # NIL
               THEN [R.nodes EXCEPT ![next].levels[i + 1].prev = newNode]
               ELSE R.nodes
      ns2 == [ns1 EXCEPT ![newNode].levels[i + 1] =
                [next |-> next, prev |-> n, subtreesize |-> length]]
  IN [R EXCEPT !.nodes = [ns2 EXCEPT ![n].levels[i + 1].next = newNode,
                                     ![n].levels[i + 1].subtreesize = st]]

\* level i < r.height: link newNode between seek[i].node and its next
LinkLevel(R, seek, newNode, length, i) ==
  LET n == seek[i + 1].node
      nl == R.nodes[n].levels[i + 1]
      next == nl.next
      st == seek[i + 1].sub
      ns1 == IF next # NIL
               THEN [R.nodes EXCEPT ![next].levels[i + 1].prev = newNode]
               ELSE R.nodes
      ns2 == [ns1 EXCEPT ![newNode].levels[i + 1] =
                [next |-> next, prev |-> n, subtreesize |-> length + nl.subtreesize - st]]
  IN [R EXCEPT !.nodes = [ns2 EXCEPT ![n].levels[i + 1].next = newNode,
                                     ![n].levels[i + 1].subtreesize = st]]

\* GrowLevel that gives the head's new level the whole length
GrowLevel_WholeLen(R, cseek, newNode, length, i) ==
  [R EXCEPT !.nodes[HeadAddr].levels =
               Append(@, [next |-> newNode, prev |-> HeadAddr, subtreesize |-> R.len]),
            !.height = R.height + 1,
            !.nodes[newNode].levels[i + 1] =
               [next |-> NIL, prev |-> HeadAddr, subtreesize |-> R.len - cseek.sub + length]]

\* level i >= r.height: the head grows by one level
GrowLevel(R, cseek, newNode, length, i) ==
  [R EXCEPT !.nodes[HeadAddr].levels =
               Append(@, [next |-> newNode, prev |-> HeadAddr, subtreesize |-> cseek.sub]),
            !.height = R.height + 1,
            !.nodes[newNode].levels[i + 1] =
               [next |-> NIL, prev |-> HeadAddr, subtreesize |-> R.len - cseek.sub + length]]

\* for i = 0; i < height; i++ { ... }, carrying the rope and cseek
RECURSIVE InsertLevels(_, _, _, _, _, _, _)
InsertLevels(R, seek, cseek, newNode, length, i, h) ==
  IF i >= h THEN R
  ELSE IF i < R.height
    THEN InsertLevels(LinkLevel(R, seek, newNode, length, i), seek, cseek,
                      newNode, length, i + 1, h)
    ELSE LET link == Len(R.nodes[cseek.node].levels) - 1
             c1 == WalkToHead(R.nodes, cseek, link)
         IN InsertLevels(GrowLevel(R, c1, newNode, length, i), seek, c1,
                         newNode, length, i + 1, h)

\* an insert that leaves the links that pass over the new node as they were
WidenLevels_Nothing(ns, seek, length, i) == ns

\* for ; i < len(seek); i++ { seek[i].node.levels[i].subtreesize += length }
RECURSIVE WidenLevels(_, _, _, _)
WidenLevels(ns, seek, length, i) ==
  IF i >= Len(seek) THEN ns
  ELSE WidenLevels([ns EXCEPT ![seek[i + 1].node].levels[i + 1].subtreesize = @ + length],
                   seek, length, i + 1)

\* the lastId update that ends the insert
InsertLastId(R, after, insertId, length) ==
  IF after = HeadAddr
    THEN (IF R.len = length THEN insertId ELSE R.lastId)
    ELSE (IF R.lastId = R.nodes[after].id THEN insertId ELSE R.lastId)

InsertPhase(R, after, sk, insertId, length, data, h) ==
  LET t == TakeNode(R, insertId, length, data, h)
      R1 == [t.R EXCEPT !.byId = [x \in (DOMAIN t.R.byId) \cup {insertId} |->
                                     IF x = insertId THEN t.newNode ELSE t.R.byId[x]]]
      R2 == InsertLevels(R1, sk.seek, sk.cseek, t.newNode, length, 0, h)
      R3 == [R2 EXCEPT !.nodes = WidenLevels(R2.nodes, sk.seek, length, h),
                       !.len = R2.len + length]
  IN [R3 EXCEPT !.lastId = InsertLastId(R3, after, insertId, length)]

\* ------------------------------------------------------------------ splice
splice(R, after, doDelete, deleteUntil, doInsert, insertId, length, data, h) ==
  LET sk == SeekPhase(R, after)
      d == IF doDelete THEN DeletePhase(R, after, sk.seek, deleteUntil)
                       ELSE [R |-> R, removed |-> <<>>]
      R1 == IF doInsert THEN InsertPhase(d.R, after, sk, insertId, length, data, h)
                        ELSE d.R
  IN [R |-> R1, removed |-> d.removed, err |-> ErrNil]

\* Splice that looks for the new id among the entries the call will leave
Splice_IdCheckedAfterDelete(R, afterId, deleteUntilId, insertId, data, h) ==
  LET afterNode == IF afterId \in DOMAIN R.byId THEN R.byId[afterId]
                   ELSE IF afterId = zeroId THEN HeadAddr ELSE NIL
      doDelete == deleteUntilId # NoId /\ deleteUntilId # afterId
      deleteUntil == IF doDelete THEN deleteUntilId ELSE zeroId
      doInsert == insertId # NoId
      length == IF doInsert /\ IsSizer(data) THEN SizerLen(data) ELSE 0
  IN IF afterNode = NIL THEN [R |-> R, removed |-> <<>>, err |-> ErrBadAnchor]
     ELSE IF doInsert /\ insertId \in DOMAIN R.byId /\ ~(doDelete /\ insertId = deleteUntil)
       THEN [R |-> R, removed |-> <<>>, err |-> ErrIdExists]
     ELSE IF doInsert /\ length < 0
       THEN [R |-> R, removed |-> <<>>, err |-> ErrNegativeLength]
     ELSE splice(R, afterNode, doDelete, deleteUntil, doInsert,
                 IF doInsert THEN insertId ELSE zeroId, length, data, h)

\* Splice that deletes also when deleteUntilId is the anchor
Splice_DeletesUntilAnchor(R, afterId, deleteUntilId, insertId, data, h) ==
  LET afterNode == IF afterId \in DOMAIN R.byId THEN R.byId[afterId]
                   ELSE IF afterId = zeroId THEN HeadAddr ELSE NIL
      doDelete == deleteUntilId # NoId
      deleteUntil == IF doDelete THEN deleteUntilId ELSE zeroId
      doInsert == insertId # NoId
      length == IF doInsert /\ IsSizer(data) THEN SizerLen(data) ELSE 0
  IN IF afterNode = NIL THEN [R |-> R, removed |-> <<>>, err |-> ErrBadAnchor]
     ELSE IF doInsert /\ insertId \in DOMAIN R.byId
       THEN [R |-> R, removed |-> <<>>, err |-> ErrIdExists]
     ELSE IF doInsert /\ length < 0
       THEN [R |-> R, removed |-> <<>>, err |-> ErrNegativeLength]
     ELSE splice(R, afterNode, doDelete, deleteUntil, doInsert,
                 IF doInsert THEN insertId ELSE zeroId, length, data, h)

\* Splice without the test that insertId is new
Splice_NoIdCheck(R, afterId, deleteUntilId, insertId, data, h) ==
  LET afterNode == IF afterId \in DOMAIN R.byId THEN R.byId[afterId]
                   ELSE IF afterId = zeroId THEN HeadAddr ELSE NIL
      doDelete == deleteUntilId # NoId /\ deleteUntilId # afterId
      deleteUntil == IF doDelete THEN deleteUntilId ELSE zeroId
      doInsert == insertId # NoId
      length == IF doInsert /\ IsSizer(data) THEN SizerLen(data) ELSE 0
  IN IF afterNode = NIL THEN [R |-> R, removed |-> <<>>, err |-> ErrBadAnchor]
     ELSE IF doInsert /\ length < 0
       THEN [R |-> R, removed |-> <<>>, err |-> ErrNegativeLength]
     ELSE splice(R, afterNode, doDelete, deleteUntil, doInsert,
                 IF doInsert THEN insertId ELSE zeroId, length, data, h)

\* Splice(afterId, deleteUntilId, insertId, data); h is the height randomHeight draws
Splice(R, afterId, deleteUntilId, insertId, data, h) ==
  LET afterNode == IF afterId \in DOMAIN R.byId THEN R.byId[afterId]
                   ELSE IF afterId = zeroId THEN HeadAddr ELSE NIL
      doDelete == deleteUntilId # NoId /\ deleteUntilId # afterId
      deleteUntil == IF doDelete THEN deleteUntilId ELSE zeroId
      doInsert == insertId # NoId
      length == IF doInsert /\ IsSizer(data) THEN SizerLen(data) ELSE 0
  IN IF afterNode = NIL THEN [R |-> R, removed |-> <<>>, err |-> ErrBadAnchor]
     ELSE IF doInsert /\ insertId \in DOMAIN R.byId
       THEN [R |-> R, removed |-> <<>>, err |-> ErrIdExists]
     ELSE IF doInsert /\ length < 0
       THEN [R |-> R, removed |-> <<>>, err |-> ErrNegativeLength]
     ELSE splice(R, afterNode, doDelete, deleteUntil, doInsert,
                 IF doInsert THEN insertId ELSE zeroId, length, data, h)

\* randomHeight is called once, and only by a call that gets to insert
Draws(R, afterId, insertId, data) ==
  IF Splice(R, afterId, NoId, insertId, data, 1).err = ErrNil THEN Heights ELSE {1}

Insert(R, afterId, newId, data, h) == Splice(R, afterId, NoId, newId, data, h)

Delete(R, afterId, untilId) == Splice(R, afterId, untilId, NoId, ZeroData, 1)

\* ----------------------------------------------------------------- queries
RopeLen(R) == R.len

Count(R) == Cardinality(DOMAIN R.byId) - 1

LastId(R) == R.lastId

RECURSIVE FindWalk(_, _, _)
FindWalk(R, node, pos) ==
  IF node = HeadAddr THEN pos
  ELSE LET link == Len(R.nodes[node].levels) - 1
           p == R.nodes[node].levels[link + 1].prev
       IN FindWalk(R, p, pos + R.nodes[p].levels[link + 1].subtreesize)

Find(R, id) ==
  IF id \notin DOMAIN R.byId THEN 0 - 1
  ELSE FindWalk(R, R.byId[id], 0) + R.nodes[R.byId[id]].dl.Len

ZeroInfo == [Id |-> zeroId, Next |-> zeroId, Prev |-> zeroId, Len |-> 0, Data |-> ZeroData]

Info(R, id) ==
  IF id \notin DOMAIN R.byId THEN ZeroInfo
  ELSE LET node == R.nodes[R.byId[id]]
           ol == node.levels[1]
       IN [Id |-> node.id,
           Next |-> IF ol.next # NIL THEN R.nodes[ol.next].id ELSE zeroId,
           Prev |-> R.nodes[ol.prev].id,
           Len |-> node.dl.Len,
           Data |-> node.dl.Data]

\* -------------------------------------------------------------- ByPosition
\* a first loop that also moves on when position equals the link's size
RECURSIVE SkipForward_Eager(_, _, _, _)
SkipForward_Eager(R, e, position, h) ==
  LET l == R.nodes[e].levels[h + 1]
  IN IF position >= l.subtreesize
       THEN IF l.next = NIL
              THEN [e |-> e, position |-> position - l.subtreesize, left |-> TRUE]
              ELSE SkipForward_Eager(R, l.next, position - l.subtreesize, h)
       ELSE [e |-> e, position |-> position, left |-> FALSE]

\* for position > e.levels[h].subtreesize { position -= ...; step to next }; a
\* nil next leaves the level at once (continue outer), position already reduced
RECURSIVE SkipForward(_, _, _, _)
SkipForward(R, e, position, h) ==
  LET l == R.nodes[e].levels[h + 1]
  IN IF position > l.subtreesize
       THEN IF l.next = NIL
              THEN [e |-> e, position |-> position - l.subtreesize, left |-> TRUE]
              ELSE SkipForward(R, l.next, position - l.subtreesize, h)
       ELSE [e |-> e, position |-> position, left |-> FALSE]

\* a bias loop that moves on without looking at the link's size
RECURSIVE BiasForward_NoSizeTest(_, _, _, _, _)
BiasForward_NoSizeTest(R, e, position, h, biasAfter) ==
  LET l == R.nodes[e].levels[h + 1]
  IN IF biasAfter /\ l.next # NIL
       THEN BiasForward_NoSizeTest(R, l.next, position - l.subtreesize, h, biasAfter)
       ELSE [e |-> e, position |-> position]

\* for biasAfter && position >= e.levels[h].subtreesize && e.levels[h].next != nil
RECURSIVE BiasForward(_, _, _, _, _)
BiasForward(R, e, position, h, biasAfter) ==
  LET l == R.nodes[e].levels[h + 1]
  IN IF biasAfter /\ position >= l.subtreesize /\ l.next # NIL
       THEN BiasForward(R, l.next, position - l.subtreesize, h, biasAfter)
       ELSE [e |-> e, position |-> position]

\* for h := r.height - 1; h >= 0; h--
RECURSIVE Descend(_, _, _, _, _)
Descend(R, e, position, h, biasAfter) ==
  IF h < 0 THEN [e |-> e, position |-> position]
  ELSE LET s == SkipForward(R, e, position, h)
           b == IF s.left THEN [e |-> s.e, position |-> s.position]
                ELSE BiasForward(R, s.e, s.position, h, biasAfter)
       IN Descend(R, b.e, b.position, h - 1, biasAfter)

ByPosition(R, position, biasAfter) ==
  IF position < 0 \/ (~biasAfter /\ position = 0) THEN [id |-> zeroId, offset |-> 0]
  ELSE IF position > R.len \/ (biasAfter /\ position = R.len)
    THEN [id |-> R.lastId, offset |-> 0]
  ELSE LET d == Descend(R, HeadAddr, position, R.height - 1, biasAfter)
       IN [id |-> R.nodes[d.e].id, offset |-> R.nodes[d.e].dl.Len - d.position]

\* ----------------------------------------------------------------- Compare
\* rseekNodes: target[i] is the nearest node at or before curr that has level i
RECURSIVE rseekNodes(_, _, _, _)
rseekNodes(R, curr, target, i) ==
  LET ll == Len(R.nodes[curr].levels)
      top == IF ll < R.height THEN ll ELSE R.height
      t1 == [k \in 1..R.height |-> IF k > i /\ k <= top THEN curr ELSE target[k]]
      i1 == IF top > i THEN top ELSE i
  IN IF i1 = R.height THEN t1
     ELSE rseekNodes(R, R.nodes[curr].levels[ll].prev, t1, i1)

\* the walk that does not turn the sign when it steps up into the other path
RECURSIVE CompareWalk_UpKeepsSign(_, _, _, _, _)
CompareWalk_UpKeepsSign(R, anodes, curr, i, cmp) ==
  LET ll == Len(R.nodes[curr].levels)
      i1 == IF ll > i THEN ll ELSE i
      up == R.nodes[curr].levels[ll].prev
  IN IF \E k \in i..(ll - 1) : anodes[k + 1] = curr THEN cmp
     ELSE IF up = anodes[ll] THEN cmp
     ELSE IF up = HeadAddr THEN cmp
     ELSE CompareWalk_UpKeepsSign(R, anodes, up, i1, cmp)

\* "walk up the tree": the loop of Compare from bnode, i counting from 1
RECURSIVE CompareWalk(_, _, _, _, _)
CompareWalk(R, anodes, curr, i, cmp) ==
  LET ll == Len(R.nodes[curr].levels)
      i1 == IF ll > i THEN ll ELSE i
      up == R.nodes[curr].levels[ll].prev
  IN IF \E k \in i..(ll - 1) : anodes[k + 1] = curr THEN cmp
     ELSE IF up = anodes[ll] THEN 0 - cmp
     ELSE IF up = HeadAddr THEN cmp
     ELSE CompareWalk(R, anodes, up, i1, cmp)

\* a Compare that swaps the nodes and keeps cmp = 1
Compare_SwapKeepsSign(R, a, b) ==
  IF a = b THEN [cmp |-> 0, ok |-> a \in DOMAIN R.byId]
  ELSE IF a \notin DOMAIN R.byId \/ b \notin DOMAIN R.byId THEN [cmp |-> 0, ok |-> FALSE]
  ELSE LET swap == Len(R.nodes[R.byId[a]].levels) < Len(R.nodes[R.byId[b]].levels)
           anode == IF swap THEN R.byId[b] ELSE R.byId[a]
           bnode == IF swap THEN R.byId[a] ELSE R.byId[b]
           anodes == rseekNodes(R, anode, [k \in 1..R.height |-> NIL], 0)
       IN [cmp |-> CompareWalk(R, anodes, bnode, 1, 1), ok |-> TRUE]

Compare(R, a, b) ==
  IF a = b THEN [cmp |-> 0, ok |-> a \in DOMAIN R.byId]
  ELSE IF a \notin DOMAIN R.byId \/ b \notin DOMAIN R.byId THEN [cmp |-> 0, ok |-> FALSE]
  ELSE LET swap == Len(R.nodes[R.byId[a]].levels) < Len(R.nodes[R.byId[b]].levels)
           anode == IF swap THEN R.byId[b] ELSE R.byId[a]
           bnode == IF swap THEN R.byId[a] ELSE R.byId[b]
           anodes == rseekNodes(R, anode, [k \in 1..R.height |-> NIL], 0)
       IN [cmp |-> CompareWalk(R, anodes, bnode, 1, IF swap THEN 0 - 1 ELSE 1),
           ok |-> TRUE]

Less(R, a, b) == Compare(R, a, b).cmp < 0

\* ---------------------------------------------------------------- iterator
\* an iterator is idle (none made), ready (made, not yet pulled), paused (inside
\* yield) or done (it returned); afterId is read by the first pull only and is
\* kept until then
NoOut == [id |-> NoId, dl |-> ZeroDataLen]
IdleIter == [pc |-> "idle", afterId |-> zeroId, e |-> NIL, out |-> NoOut]

\* e.iterRef = &iterRef{node: e, count: 1}, or count++
Attach(ns, e) ==
  IF ns[e].iterRef = NoRef
    THEN [ns EXCEPT ![e].iterRef = [count |-> 1, node |-> e]]
    ELSE [ns EXCEPT ![e].iterRef.count = @ + 1]

\* count--, and the reference is dropped at zero
Detach(ns, e) ==
  IF ns[e].iterRef.count - 1 = 0
    THEN [ns EXCEPT ![e].iterRef = NoRef]
    ELSE [ns EXCEPT ![e].iterRef.count = @ - 1]

\* the top of Iter's loop from node e: step to the level-0 next and yield it, or return
Advance(ns, it, e) ==
  LET next == ns[e].levels[1].next
  IN IF next = NIL
       THEN [nodes |-> ns, it |-> [IdleIter EXCEPT !.pc = "done"]]
       ELSE [nodes |-> Attach(ns, next),
             it |-> [it EXCEPT !.pc = "paused", !.afterId = zeroId, !.e = next,
                               !.out = [id |-> ns[next].id, dl |-> ns[next].dl]]]

\* a first pull that starts at the head whatever afterId is
FirstPull_FromHead(R, it) == Advance(R.nodes, it, HeadAddr)

\* the first pull: e := r.byId[afterId]
FirstPull(R, it) ==
  IF it.afterId \notin DOMAIN R.byId
    THEN [nodes |-> R.nodes, it |-> [IdleIter EXCEPT !.pc = "done"]]
    ELSE Advance(R.nodes, it, R.byId[it.afterId])

\* the node the iterator goes on from when yield returns: e.iterRef.node
ResumeNode(ns, it) == ns[it.e].iterRef.node

\* a resume that goes on from e itself and not from the cursor's node
NextPull_FromE(R, it) == Advance(Detach(R.nodes, it.e), it, it.e)

\* yield returned true: leave e for the cursor's node and go round the loop
NextPull(R, it) ==
  LET update == ResumeNode(R.nodes, it)
  IN Advance(Detach(R.nodes, it.e), it, update)

\* yield returned false
StopPull(R, it) ==
  [nodes |-> Detach(R.nodes, it.e),
   it |-> [IdleIter EXCEPT !.pc = "done"]]

\* -------------------------------------------------------------------- heap
\* The heap is kept up to what the program can tell: a node nothing will read
\* again gives its cell back (garbage collection), a field nothing will read
\* again is cleared, and cells are named in a fixed order (addresses themselves
\* are not observable, only pointer equality is).
Range(f) == {f[x] : x \in DOMAIN f}

\* addresses along level-0 next links after a, at most n of them
RECURSIVE Walk0(_, _, _)
Walk0(ns, a, n) ==
  LET nx == ns[a].levels[1].next
  IN IF n = 0 \/ nx = NIL THEN <<>> ELSE <<nx>> \o Walk0(ns, nx, n - 1)

\* the nodes of the list in level-0 order, the head first
ListAddrs(R) == <<HeadAddr>> \o Walk0(R.nodes, HeadAddr, MaxNodes)

\* removed nodes an iterator may still read id, dl or the level-0 next of: those a
\* cursor points to, and on from there along level-0 next and cursors
ReadRefs(ns, a) ==
  ((IF ns[a].levels = <<>> THEN {} ELSE {ns[a].levels[1].next})
     \cup {ns[a].iterRef.node}) \ {NIL}

RECURSIVE ReadClosure(_, _)
ReadClosure(ns, S) ==
  LET S1 == S \cup UNION {ReadRefs(ns, a) : a \in S}
  IN IF S1 = S THEN S ELSE ReadClosure(ns, S1)

Held(its) == {its[i].e : i \in DOMAIN its} \ {NIL}

Readable(R, its) ==
  ReadClosure(R.nodes, {R.nodes[e].iterRef.node : e \in Held(its)} \ {NIL})

RECURSIVE Ascending(_)
Ascending(S) ==
  IF S = {} THEN <<>>
  ELSE LET m == CHOOSE x \in S : \A y \in S : x <= y
       IN <<m>> \o Ascending(S \ {m})

RECURSIVE Dedupe(_, _)
Dedupe(sq, had) ==
  IF sq = <<>> THEN <<>>
  ELSE IF sq[1] \in had THEN Dedupe(Tail(sq), had)
  ELSE <<sq[1]>> \o Dedupe(Tail(sq), had \cup {sq[1]})

\* the cells in use, in naming order: list, pool, nodes iterators hold, nodes
\* they may read
CellOrder(R, its) ==
  Dedupe(ListAddrs(R) \o R.nodePool
           \o [i \in DOMAIN its |-> its[i].e]
           \o Ascending(Readable(R, its)),
         {NIL})

Collect(R, its) ==
  LET ord == CellOrder(R, its)
      inList == Range(ListAddrs(R))
      inPool == Range(R.nodePool)
      readable == Readable(R, its)
      name == [a \in Addr \cup {NIL} |->
                 IF \E k \in DOMAIN ord : ord[k] = a
                   THEN (CHOOSE k \in DOMAIN ord : ord[k] = a) - 1
                   ELSE NIL]
      cell == [a \in Addr |->
        LET n == R.nodes[a]
            ref == IF n.iterRef = NoRef THEN NoRef
                   ELSE [count |-> n.iterRef.count, node |-> name[n.iterRef.node]]
        IN IF a \in inList
             THEN [n EXCEPT !.levels = [i \in DOMAIN n.levels |->
                                          [next |-> name[n.levels[i].next],
                                           prev |-> name[n.levels[i].prev],
                                           subtreesize |-> n.levels[i].subtreesize]],
                            !.iterRef = ref]
           ELSE IF a \in inPool
             THEN [n EXCEPT !.levels = <<ZeroLevel>>, !.iterRef = ref]
           ELSE IF a \in readable
             THEN [n EXCEPT !.levels = <<[ZeroLevel EXCEPT !.next = name[n.levels[1].next]]>>,
                            !.iterRef = ref]
           ELSE [FreeNode EXCEPT !.levels = <<ZeroLevel>>, !.iterRef = ref]]
  IN [R |-> [R EXCEPT !.nodes = [k \in Addr |-> IF k + 1 \in DOMAIN ord
                                                  THEN cell[ord[k + 1]] ELSE FreeNode],
                      !.byId = [x \in DOMAIN R.byId |-> name[R.byId[x]]],
                      !.nodePool = [j \in DOMAIN R.nodePool |-> name[R.nodePool[j]]]],
      its |-> [i \in DOMAIN its |-> [its[i] EXCEPT !.e = name[its[i].e]]]]

\* ---------------------------------------------------------------- observer
\* What a consumer can tell of iterator i without looking into the rope:
\* clean - no splice has changed the sequence since the iterator was made;
\* start, seen, ended - while clean: the id it was made with, the ids it has
\*         delivered so far, and whether it has run off the end;
\* cur   - the entry it is paused on or, once that was removed, the anchor of the
\*         splice that removed it: the nearest surviving predecessor (NoId if none).
NewObs(afterId) ==
  [clean |-> TRUE, start |-> afterId, seen |-> <<>>, ended |-> FALSE, cur |-> NoId]

DirtyObs(cur) ==
  [clean |-> FALSE, start |-> zeroId, seen |-> <<>>, ended |-> FALSE, cur |-> cur]

RemovedIds(rem) == {rem[k].Id : k \in DOMAIN rem}

ObserveSplice(o, afterId, res, doInsert) ==
  IF res.err # ErrNil \/ (res.removed = <<>> /\ ~doInsert) THEN o
  ELSE DirtyObs(IF o.cur \in RemovedIds(res.removed) THEN afterId ELSE o.cur)

ObservePull(o, R, it1) ==
  IF it1.pc = "paused"
    THEN LET cur == IF it1.out.id \in DOMAIN R.byId /\ R.byId[it1.out.id] = it1.e
                      THEN it1.out.id ELSE NoId
         IN IF o.clean THEN [o EXCEPT !.seen = Append(o.seen, it1.out.id), !.cur = cur]
                       ELSE DirtyObs(cur)
    ELSE IF o.clean THEN [o EXCEPT !.ended = TRUE, !.cur = NoId] ELSE DirtyObs(NoId)

\* ----------------------------------------------------------------- actions
IterIds == DOMAIN iters

Init ==
  /\ nodes = [a \in Addr |->
                IF a = HeadAddr
                  THEN [id |-> zeroId, dl |-> ZeroDataLen,
                        levels |-> <<[next |-> NIL, prev |-> HeadAddr, subtreesize |-> 0]>>,
                        iterRef |-> NoRef]
                  ELSE FreeNode]
  /\ byId = [x \in {zeroId} |-> HeadAddr]
  /\ len = 0
  /\ height = 1
  /\ nodePool = <<>>
  /\ lastId = zeroId
  /\ iters = [i \in 1..NumIters |-> IdleIter]
  /\ obs = [i \in 1..NumIters |-> DirtyObs(NoId)]

\* the rope and the iterators after a step, the heap tidied
Becomes(R, its) ==
  LET c == Collect(R, its)
  IN /\ nodes' = c.R.nodes
     /\ byId' = c.R.byId
     /\ len' = c.R.len
     /\ height' = c.R.height
     /\ nodePool' = c.R.nodePool
     /\ lastId' = c.R.lastId
     /\ iters' = c.its

\* one call of Splice, start to return
DoSplice(afterId, deleteUntilId, insertId, data, h) ==
  LET res == Splice(Rope, afterId, deleteUntilId, insertId, data, h)
  IN /\ FreeAddrs(Rope) # {}
     /\ IF res.err = ErrNil \/ res.R # Rope
          THEN Becomes(res.R, iters)
          ELSE UNCHANGED <<nodes, byId, len, height, nodePool, lastId, iters>>
     /\ obs' = [i \in IterIds |-> ObserveSplice(obs[i], afterId, res, insertId # NoId)]

DoInsert(afterId, newId, data, h) == DoSplice(afterId, NoId, newId, data, h)

DoDelete(afterId, untilId) == DoSplice(afterId, untilId, NoId, ZeroData, 1)

\* r.Iter(afterId): a new iterator, nothing read yet
IterNew(i, afterId) ==
  /\ iters[i].pc \in {"idle", "done"}
  /\ iters' = [iters EXCEPT ![i] = [IdleIter EXCEPT !.pc = "ready", !.afterId = afterId]]
  /\ obs' = [obs EXCEPT ![i] = NewObs(afterId)]
  /\ UNCHANGED <<nodes, byId, len, height, nodePool, lastId>>

\* the consumer asks for the next pair: the iterator runs to its next yield or to its end
IterNext(i) ==
  /\ iters[i].pc \in {"ready", "paused"}
  /\ LET r == IF iters[i].pc = "ready" THEN FirstPull(Rope, iters[i])
                                       ELSE NextPull(Rope, iters[i])
     IN /\ Becomes([Rope EXCEPT !.nodes = r.nodes], [iters EXCEPT ![i] = r.it])
        /\ obs' = [obs EXCEPT ![i] = ObservePull(obs[i], Rope, r.it)]

\* the consumer stops: yield returns false
IterStop(i) ==
  /\ iters[i].pc = "paused"
  /\ LET r == StopPull(Rope, iters[i])
     IN /\ Becomes([Rope EXCEPT !.nodes = r.nodes], [iters EXCEPT ![i] = r.it])
        /\ obs' = [obs EXCEPT ![i] = DirtyObs(NoId)]

\* Insert and Delete are Splice with one of the two optional ids nil; the Splice
\* disjunct takes the calls that give both or neither
SpliceCalls(I) ==
  \/ \E afterId \in I, deleteUntilId \in I, insertId \in I, data \in Payloads :
       \E h \in Draws(Rope, afterId, insertId, data) :
         DoSplice(afterId, deleteUntilId, insertId, data, h)
  \/ \E afterId \in I : DoSplice(afterId, NoId, NoId, ZeroData, 1)
  \/ \E afterId \in I, newId \in I, data \in Payloads :
       \E h \in Draws(Rope, afterId, newId, data) :
         DoInsert(afterId, newId, data, h)
  \/ \E afterId \in I, untilId \in I : DoDelete(afterId, untilId)

IterCalls ==
  \/ \E i \in IterIds, afterId \in Ids : IterNew(i, afterId)
  \/ \E i \in IterIds : IterNext(i)
  \/ \E i \in IterIds : IterStop(i)

\* every operation, ids in Ids
Next == SpliceCalls(Ids) \/ IterCalls

\* the mutating operations alone, ids in SeqIds
NextSeq == SpliceCalls(SeqIds)

Spec == Init /\ [][Next]_vars

\* the same rope read by one iterator more
InitTwo ==
  /\ nodes = [a \in Addr |->
                IF a = HeadAddr
                  THEN [id |-> zeroId, dl |-> ZeroDataLen,
                        levels |-> <<[next |-> NIL, prev |-> HeadAddr, subtreesize |-> 0]>>,
                        iterRef |-> NoRef]
                  ELSE FreeNode]
  /\ byId = [x \in {zeroId} |-> HeadAddr]
  /\ len = 0
  /\ height = 1
  /\ nodePool = <<>>
  /\ lastId = zeroId
  /\ iters = [i \in 1..(NumIters + 1) |-> IdleIter]
  /\ obs = [i \in 1..(NumIters + 1) |-> DirtyObs(NoId)]

\* Insert, Delete and replacing Splice with the zero payload, every node of height 1
PlainCalls(I) ==
  \/ \E afterId \in I, deleteUntilId \in I, insertId \in I :
       /\ Cardinality(FreeAddrs(Rope)) > MaxNodes - NodeBudget
       /\ DoSplice(afterId, deleteUntilId, insertId, ZeroData, 1)
  \/ \E afterId \in I, newId \in I :
       /\ Cardinality(FreeAddrs(Rope)) > MaxNodes - NodeBudget
       /\ DoInsert(afterId, newId, ZeroData, 1)
  \/ \E afterId \in I, untilId \in I :
       /\ Cardinality(FreeAddrs(Rope)) > MaxNodes - NodeBudget
       /\ DoDelete(afterId, untilId)

\* several iterators over a rope of plain entries
NextTwo == PlainCalls(Ids) \/ IterCalls

SpecTwo == InitTwo /\ [][NextTwo]_vars

\* the smallest id of PoolIds that is not live
FreshId(R) ==
  CHOOSE n \in PoolIds \ DOMAIN R.byId : \A m \in PoolIds \ DOMAIN R.byId : n <= m

\* a stack of plain entries: push the next id at the front, delete from the front
PoolCalls ==
  \/ /\ PoolIds \ DOMAIN byId # {}
     /\ DoInsert(zeroId, FreshId(Rope), ZeroData, 1)
  \/ \E untilId \in PoolIds : DoDelete(zeroId, untilId)

NextPool == PoolCalls \/ IterCalls

SpecPool == Init /\ [][NextPool]_vars

SpecSeq == Init /\ [][NextSeq]_vars

\* ============================================================== properties
\* the sequence as a reader sees it: ids, and (id, len, payload) records, in
\* level-0 order from the zero entry
IdSeq(R) == [k \in DOMAIN ListAddrs(R) |-> R.nodes[ListAddrs(R)[k]].id]

EntrySeq(R) ==
  [k \in DOMAIN ListAddrs(R) |->
     [Id |-> R.nodes[ListAddrs(R)[k]].id,
      Len |-> R.nodes[ListAddrs(R)[k]].dl.Len,
      Data |-> R.nodes[ListAddrs(R)[k]].dl.Data]]

RECURSIVE SumLen(_)
SumLen(es) == IF es = <<>> THEN 0 ELSE es[1].Len + SumLen(Tail(es))

\* position of x in a sequence, 0 if it is not there
Pos(sq, x) == IF \E k \in DOMAIN sq : sq[k] = x THEN CHOOSE k \in DOMAIN sq : sq[k] = x ELSE 0

Members(sq) == {sq[k] : k \in DOMAIN sq}

\* every call of Splice a caller can make in this state
SpliceArgs ==
  {a \in [afterId : AllIds, deleteUntilId : AllIds \cup {NoId},
          insertId : AllIds \cup {NoId}, data : Payloads, h : Heights] :
     a.insertId = NoId => (a.data = ZeroData /\ a.h = 1)}

Result(a) == Splice(Rope, a.afterId, a.deleteUntilId, a.insertId, a.data, a.h)

\* the heap is kept in its tidy form: tidying a reachable state changes nothing
HeapTidy == Collect(Rope, iters) = [R |-> Rope, its |-> iters]

\* ---- C1: Find(X) of every entry X is the sum of len over the entries from the
\* start of the sequence up to and including X, in level-0 order; Find of the
\* zero id is 0 and Find of an id that is not in the sequence is -1
C1_FindIsPrefixSum ==
  LET es == EntrySeq(Rope)
  IN /\ \A k \in DOMAIN es : Find(Rope, es[k].Id) = SumLen(SubSeq(es, 1, k))
     /\ Find(Rope, zeroId) = 0
     /\ \A x \in AllIds : x \notin Members(IdSeq(Rope)) => Find(Rope, x) = 0 - 1

\* three entries of mixed heights, the last one at a position past its own len
C1_Witness ==
  LET es == EntrySeq(Rope)
  IN /\ Len(es) = 4
     /\ height = 2
     /\ Len(nodes[ListAddrs(Rope)[2]].levels) = 1
     /\ Len(nodes[ListAddrs(Rope)[3]].levels) = 2
     /\ Len(nodes[ListAddrs(Rope)[4]].levels) = 1
     /\ es[2].Len = 2 /\ es[3].Len = 0 /\ es[4].Len = 1
     /\ Find(Rope, es[4].Id) = 3
     /\ nodePool = <<>>

\* ---- C2: Splice(A, &X, nil, _) with A live and X a live entry after A removes
\* exactly the run from A's successor through X: removed lists those entries'
\* (id, len, payload) in order, they become absent (Find = -1), Len() drops by the
\* sum of their len, every other entry stays in the same relative order, Find is
\* unchanged up to A and reduced by the removed sum after X
C2_DeleteRun ==
  \A a \in SpliceArgs :
    LET es == EntrySeq(Rope)
        ids == IdSeq(Rope)
        i == Pos(ids, a.afterId)
        j == Pos(ids, a.deleteUntilId)
        res == Result(a)
        run == SubSeq(es, i + 1, j)
    IN (a.insertId = NoId /\ a.deleteUntilId # NoId /\ i > 0 /\ j > i) =>
         /\ res.err = ErrNil
         /\ res.removed = run
         /\ \A k \in DOMAIN run : Find(res.R, run[k].Id) = 0 - 1
         /\ RopeLen(res.R) = RopeLen(Rope) - SumLen(run)
         /\ EntrySeq(res.R) = SubSeq(es, 1, i) \o SubSeq(es, j + 1, Len(es))
         /\ \A k \in 1..i : Find(res.R, ids[k]) = Find(Rope, ids[k])
         /\ \A k \in (j + 1)..Len(ids) :
              Find(res.R, ids[k]) = Find(Rope, ids[k]) - SumLen(run)

\* a state where Splice(0, &X, nil, _) removes a run of two entries, of length 1
\* and 2, and the entry after the run moves from position 5 to position 2
C2_Witness ==
  \E a \in SpliceArgs :
    LET ids == IdSeq(Rope)
        res == Result(a)
    IN /\ a.insertId = NoId /\ a.deleteUntilId # NoId
       /\ Pos(ids, a.afterId) = 1
       /\ Pos(ids, a.deleteUntilId) = 3
       /\ Len(ids) = 4
       /\ Len(res.removed) = 2
       /\ res.removed[1].Len = 1 /\ res.removed[2].Len = 2
       /\ Find(Rope, ids[4]) = 5
       /\ Find(res.R, ids[4]) = 2
       /\ height = 2

\* ---- C3: a successful Splice(A, del, &N, data) deletes first and then puts N
\* right after A: Info(N).Prev is A, Info(N).Next is the entry that followed A
\* once the run was removed (the zero id if none), Info(N).Len is the payload's
\* Len() (0 for a payload without Len), and Find(N) = Find(A) + len(N)
AfterDelete(es, i, a) ==
  IF a.deleteUntilId = NoId \/ a.deleteUntilId = a.afterId THEN es
  ELSE LET j == Pos([k \in DOMAIN es |-> es[k].Id], a.deleteUntilId)
       IN IF j > i THEN SubSeq(es, 1, i) \o SubSeq(es, j + 1, Len(es))
          ELSE SubSeq(es, 1, i)

C3_InsertAfterDelete ==
  \A a \in SpliceArgs :
    LET es == EntrySeq(Rope)
        i == Pos(IdSeq(Rope), a.afterId)
        res == Result(a)
        kept == AfterDelete(es, i, a)
        n == Info(res.R, a.insertId)
    IN (a.insertId # NoId /\ res.err = ErrNil) =>
         /\ i > 0
         /\ n.Id = a.insertId
         /\ n.Prev = a.afterId
         /\ n.Next = (IF i < Len(kept) THEN kept[i + 1].Id ELSE zeroId)
         /\ n.Len = (IF IsSizer(a.data) THEN SizerLen(a.data) ELSE 0)
         /\ n.Data = a.data
         /\ Find(res.R, a.insertId) = Find(res.R, a.afterId) + n.Len
         /\ EntrySeq(res.R) =
              SubSeq(kept, 1, i)
                \o <<[Id |-> a.insertId, Len |-> n.Len, Data |-> a.data]>>
                \o SubSeq(kept, i + 1, Len(kept))

\* a state where one Splice removes the first entry and puts a new entry of
\* length 2 in its place, before an entry that stays
C3_Witness ==
  \E a \in SpliceArgs :
    LET ids == IdSeq(Rope)
        res == Result(a)
    IN /\ a.insertId # NoId /\ res.err = ErrNil
       /\ Len(ids) = 3
       /\ Len(res.removed) = 1
       /\ a.data = "s2"
       /\ Info(res.R, a.insertId).Prev = zeroId
       /\ Info(res.R, a.insertId).Next = ids[3]
       /\ Find(res.R, a.insertId) = 2
       /\ Find(res.R, ids[3]) = 3

\* ---- C4: Len() is the sum of len over every live entry (the zero entry adds
\* 0), and no live entry has a negative len
RECURSIVE SumOver(_, _)
SumOver(R, S) ==
  IF S = {} THEN 0
  ELSE LET x == CHOOSE y \in S : TRUE
       IN R.nodes[R.byId[x]].dl.Len + SumOver(R, S \ {x})

C4_LenIsSum ==
  /\ RopeLen(Rope) = SumOver(Rope, DOMAIN byId)
  /\ \A x \in DOMAIN byId : nodes[byId[x]].dl.Len >= 0
  /\ nodes[byId[zeroId]].dl.Len = 0

\* two live entries of length 1 and 2, and an iterator paused on a node that has
\* been removed
C4_Witness ==
  /\ Count(Rope) = 2
  /\ RopeLen(Rope) = 3
  /\ \E i \in IterIds : iters[i].pc = "paused" /\ iters[i].e \notin Range(byId)

\* ---- C5: Count() is the number of live non-zero entries: every call adds one
\* for a successful insert and takes off the entries in its removed list; and
\* the identifier index holds exactly the entries reachable from the zero entry
\* along level-0 links, each once
C5_CountAndIndex ==
  LET L == ListAddrs(Rope)
      ids == IdSeq(Rope)
  IN /\ nodes[L[Len(L)]].levels[1].next = NIL
     /\ \A k, m \in DOMAIN ids : ids[k] = ids[m] => k = m
     /\ DOMAIN byId = Members(ids)
     /\ \A k \in DOMAIN ids : byId[ids[k]] = L[k]
     /\ ids[1] = zeroId
     /\ Count(Rope) = Len(L) - 1
     /\ \A a \in SpliceArgs :
          LET res == Result(a)
          IN Count(res.R) = Count(Rope) - Len(res.removed)
                              + (IF a.insertId # NoId /\ res.err = ErrNil THEN 1 ELSE 0)

\* a state with two live entries where one call removes both and inserts one
C5_Witness ==
  \E a \in SpliceArgs :
    /\ Count(Rope) = 2
    /\ Len(Result(a).removed) = 2
    /\ a.insertId # NoId
    /\ Result(a).err = ErrNil
    /\ Count(Result(a).R) = 1
    /\ DOMAIN Result(a).R.byId = {zeroId, a.insertId}

\* ---- C6: Splice (Insert and Delete are Splice with one optional id nil)
\* returns ErrBadAnchor when afterId is not live, else ErrIdExists when insertId
\* is present (the zero id, or an entry the same call would delete, included),
\* else ErrNegativeLength when the payload's Len() is negative; on each of these
\* nothing is removed and the sequence, Len(), Count(), LastId() and every Find
\* are as before the call
C6_ErrorsLeaveState ==
  \A a \in SpliceArgs :
    LET res == Result(a)
        badAnchor == a.afterId \notin DOMAIN byId
        idExists == a.insertId # NoId /\ a.insertId \in DOMAIN byId
        negative == a.insertId # NoId /\ IsSizer(a.data) /\ SizerLen(a.data) < 0
    IN /\ badAnchor => res.err = ErrBadAnchor
       /\ (~badAnchor /\ idExists) => res.err = ErrIdExists
       /\ (~badAnchor /\ ~idExists /\ negative) => res.err = ErrNegativeLength
       /\ res.err # ErrNil =>
            /\ res.removed = <<>>
            /\ EntrySeq(res.R) = EntrySeq(Rope)
            /\ RopeLen(res.R) = RopeLen(Rope)
            /\ Count(res.R) = Count(Rope)
            /\ LastId(res.R) = LastId(Rope)
            /\ \A x \in AllIds : Find(res.R, x) = Find(Rope, x)
            /\ res.R = Rope

\* a state with two live entries where Splice(0, &X, &X, _) is refused for X the
\* second entry, a call inserting the zero id is refused, one with a payload of
\* negative length is refused, and one after an absent id is refused
C6_Witness ==
  /\ Count(Rope) = 2
  /\ \E x \in DOMAIN byId :
       /\ Pos(IdSeq(Rope), x) = 3
       /\ Splice(Rope, zeroId, x, x, "s1", 1).err = ErrIdExists
  /\ Splice(Rope, lastId, NoId, zeroId, "s1", 1).err = ErrIdExists
  /\ \E n \in AllIds \ DOMAIN byId :
       /\ Splice(Rope, zeroId, NoId, n, "neg", 1).err = ErrNegativeLength
       /\ Splice(Rope, n, NoId, NoId, ZeroData, 1).err = ErrBadAnchor
       /\ Insert(Rope, n, n, "neg", 1).err = ErrBadAnchor
       /\ Delete(Rope, n, zeroId).err = ErrBadAnchor

\* ------------------------------------------------------ iterator properties
\* what the next pull of a paused iterator hands over in rope R: pc is "paused"
\* with the pair in out, or "done"
NextYield(R, it) == NextPull(R, it).it

Yields(y, e) == y.pc = "paused" /\ y.out = [id |-> e.Id, dl |-> [Len |-> e.Len, Data |-> e.Data]]

\* the first entry after position p of es whose id is not in gone; 0 if none
FirstLeft(es, p, gone) ==
  LET ks == {k \in (p + 1)..Len(es) : es[k].Id \notin gone}
  IN IF ks = {} THEN 0 ELSE CHOOSE k \in ks : \A m \in ks : k <= m

\* iterator i is paused on a live entry
OnLive(i) == iters[i].pc = "paused" /\ iters[i].e \in Range(byId)

\* ---- C7: whatever insertions and deletions were done while an iterator is
\* paused on X, the next pull resumes from the nearest surviving predecessor of X
\* (X itself if live) and yields that entry's current level-0 successor, ending
\* only when it has none
C7_CursorStaysValid ==
  \A i \in IterIds :
    (iters[i].pc = "paused" /\ obs[i].cur # NoId) =>
      LET es == EntrySeq(Rope)
          p == Pos(IdSeq(Rope), obs[i].cur)
          y == NextYield(Rope, iters[i])
      IN /\ p > 0
         /\ IF p = Len(es) THEN y.pc = "done" ELSE Yields(y, es[p + 1])

\* ---- C8 as stated: if the entry an iterator is paused on is deleted by one
\* splice, the next pull yields the first entry after it that survived that
\* splice, or reports the end if there is none
C8_AsStated ==
  \A i \in IterIds : \A a \in SpliceArgs :
    LET es == EntrySeq(Rope)
        res == Result(a)
        x == nodes[iters[i].e].id
        k == FirstLeft(es, Pos(IdSeq(Rope), x), RemovedIds(res.removed))
        y == NextYield(res.R, iters[i])
    IN (OnLive(i) /\ res.err = ErrNil /\ x \in RemovedIds(res.removed)) =>
         IF k = 0 THEN y.pc = "done" ELSE Yields(y, es[k])

\* ---- C8, amended: if the entry an iterator is paused on is deleted by one
\* splice, the next pull yields the entry that splice inserted, if it inserted
\* one, and otherwise the first entry after the paused one that survived the
\* splice, or reports the end if there is none
C8_DeletedUnderIterator ==
  \A i \in IterIds : \A a \in SpliceArgs :
    LET es == EntrySeq(Rope)
        res == Result(a)
        x == nodes[iters[i].e].id
        k == FirstLeft(es, Pos(IdSeq(Rope), x), RemovedIds(res.removed))
        y == NextYield(res.R, iters[i])
    IN (OnLive(i) /\ res.err = ErrNil /\ x \in RemovedIds(res.removed)) =>
         IF a.insertId # NoId
           THEN Yields(y, [Id |-> a.insertId,
                           Len |-> IF IsSizer(a.data) THEN SizerLen(a.data) ELSE 0,
                           Data |-> a.data])
         ELSE IF k = 0 THEN y.pc = "done" ELSE Yields(y, es[k])

\* an iterator paused on the first of two entries, where Delete(0, first) makes
\* the next pull yield the second, and Delete(0, second) removes the paused
\* entry as part of a run of two and makes the next pull report the end
C8_Witness ==
  \E i \in IterIds :
    LET ids == IdSeq(Rope)
    IN /\ OnLive(i)
       /\ Len(ids) = 3
       /\ nodes[iters[i].e].id = ids[2]
       /\ Len(Delete(Rope, zeroId, ids[2]).removed) = 1
       /\ NextYield(Delete(Rope, zeroId, ids[2]).R, iters[i]).out.id = ids[3]
       /\ Len(Delete(Rope, zeroId, ids[3]).removed) = 2
       /\ NextYield(Delete(Rope, zeroId, ids[3]).R, iters[i]).pc = "done"

\* ---- C9: with no mutation during the iteration, Iter(afterId) for a live
\* afterId yields every entry after afterId, each once, in sequence order, with
\* its stored len and payload, and then ends; Iter of an absent id yields nothing
C9_IterYieldsAll ==
  \A i \in IterIds :
    obs[i].clean =>
      LET es == EntrySeq(Rope)
          p == Pos(IdSeq(Rope), obs[i].start)
          rest == IF p = 0 THEN <<>> ELSE SubSeq(es, p + 1, Len(es))
          seen == obs[i].seen
          n == Len(seen)
      IN /\ n <= Len(rest)
         /\ \A k \in 1..n : seen[k] = rest[k].Id
         /\ iters[i].pc = "ready" => n = 0
         /\ iters[i].pc = "paused" => (n >= 1 /\ Yields(iters[i], rest[n]))
         /\ iters[i].pc = "done" => (obs[i].ended /\ n = Len(rest))
         /\ obs[i].ended => iters[i].pc = "done"

\* an iterator made with the zero id that has delivered both entries and ended
C9_Witness ==
  \E i \in IterIds :
    /\ obs[i].clean /\ obs[i].ended
    /\ obs[i].start = zeroId
    /\ Len(obs[i].seen) = 2
    /\ obs[i].seen = SubSeq(IdSeq(Rope), 2, 3)

\* ---- C10: if a new entry N is inserted right after the node an iterator will
\* resume from (the entry it is paused on, or the predecessor its cursor was
\* retargeted to), the next pull yields N; and a splice that only deletes, and
\* not the paused entry, makes the next pull yield the first entry after the
\* paused one that is left (the end if none)
C10_InsertSeenDeleteTransparent ==
  \A i \in IterIds : \A a \in SpliceArgs :
    LET es == EntrySeq(Rope)
        res == Result(a)
        x == nodes[iters[i].e].id
        k == FirstLeft(es, Pos(IdSeq(Rope), x), RemovedIds(res.removed))
        y == NextYield(res.R, iters[i])
    IN /\ (iters[i].pc = "paused" /\ res.err = ErrNil /\ a.insertId # NoId
             /\ res.R.byId[a.afterId] = ResumeNode(res.R.nodes, iters[i])) =>
            Yields(y, [Id |-> a.insertId,
                       Len |-> IF IsSizer(a.data) THEN SizerLen(a.data) ELSE 0,
                       Data |-> a.data])
       /\ (OnLive(i) /\ res.err = ErrNil /\ a.insertId = NoId
             /\ x \notin RemovedIds(res.removed)) =>
            IF k = 0 THEN y.pc = "done" ELSE Yields(y, es[k])

\* an iterator paused on the first of two entries: an insert right after it is
\* what the next pull yields, a replace of the paused entry makes it yield the
\* new entry put after the retargeted cursor, and deleting the second entry
\* makes it report the end
C10_Witness ==
  \E i \in IterIds : \E n \in AllIds \ DOMAIN byId :
    LET ids == IdSeq(Rope)
    IN /\ OnLive(i)
       /\ Len(ids) = 3
       /\ nodes[iters[i].e].id = ids[2]
       /\ NextYield(Rope, iters[i]).out.id = ids[3]
       /\ NextYield(Insert(Rope, ids[2], n, "s1", 1).R, iters[i]).out.id = n
       /\ NextYield(Splice(Rope, zeroId, ids[2], n, "s2", 1).R, iters[i]).out.id = n
       /\ NextYield(Delete(Rope, ids[2], ids[3]).R, iters[i]).pc = "done"

\* ------------------------------------------------------- lastId properties
\* ---- C11: after any sequence of successful splices, zero-length entries
\* included, LastId() is the id of the last entry in sequence order, and the
\* zero id when no other entry is live
C11_LastIdIsLast == LastId(Rope) = IdSeq(Rope)[Len(IdSeq(Rope))]

\* the inserts a caller can make in this state: a live anchor, an absent id, a
\* payload of length >= 0 and a drawn height
InsertArgs ==
  {a \in [afterId : DOMAIN byId, newId : AllIds \ DOMAIN byId,
          data : {d \in Payloads : ~IsSizer(d) \/ SizerLen(d) >= 0}, h : Heights] :
     Len(nodePool) > 0 \/ FreeAddrs(Rope) # {}}

\* ---- C12: for every live anchor A, absent id N and payload P of length
\* L >= 0, Insert(A, N, P) followed at once by Delete(A, N) brings Len(), Count()
\* and LastId() back to their values before the insert, and the delete returns
\* the one removed record {Id: N, Len: L, Data: P}
C12_InsertDeleteRestores ==
  \A a \in InsertArgs :
    LET ins == Insert(Rope, a.afterId, a.newId, a.data, a.h)
        del == Delete(ins.R, a.afterId, a.newId)
        L == IF IsSizer(a.data) THEN SizerLen(a.data) ELSE 0
    IN /\ ins.err = ErrNil
       /\ del.err = ErrNil
       /\ del.removed = <<[Id |-> a.newId, Len |-> L, Data |-> a.data]>>
       /\ RopeLen(del.R) = RopeLen(Rope)
       /\ Count(del.R) = Count(Rope)
       /\ LastId(del.R) = LastId(Rope)

\* ------------------------------------------------------ Compare properties
\* ---- C13: for two distinct live ids a and b (the zero id included),
\* Compare(a, b) is ok with cmp < 0 exactly when a comes before b in sequence
\* order and cmp > 0 exactly when a comes after b; so Find(a) < Find(b) implies
\* cmp < 0, and Less(a, b) is true exactly when a precedes b
C13_CompareIsOrder ==
  \A a \in DOMAIN byId : \A b \in (DOMAIN byId) \ {a} :
    LET c == Compare(Rope, a, b)
        pa == Pos(IdSeq(Rope), a)
        pb == Pos(IdSeq(Rope), b)
    IN /\ c.ok
       /\ (c.cmp < 0) <=> (pa < pb)
       /\ (c.cmp > 0) <=> (pa > pb)
       /\ (Find(Rope, a) < Find(Rope, b)) => (c.cmp < 0)
       /\ Less(Rope, a, b) <=> (pa < pb)

\* three entries where the first is higher than the other two and the last two
\* have equal height, and all the orders between them are told apart
C13_Witness ==
  LET ids == IdSeq(Rope)
  IN /\ Len(ids) = 4
     /\ Len(nodes[byId[ids[2]]].levels) = 2
     /\ Len(nodes[byId[ids[3]]].levels) = 1
     /\ Len(nodes[byId[ids[4]]].levels) = 1
     /\ Compare(Rope, ids[3], ids[4]).cmp < 0
     /\ Compare(Rope, ids[4], ids[2]).cmp > 0
     /\ Compare(Rope, ids[3], ids[2]).cmp > 0
     /\ Compare(Rope, zeroId, ids[3]).cmp < 0

\* ---- C14: for all live a and b (equal heights and the zero id included)
\* Compare(a, b).cmp = -Compare(b, a).cmp; Compare(a, a) is (0, true) for live a;
\* Compare is (0, false) when either id is absent
C14_CompareAntisymmetric ==
  \A a \in AllIds : \A b \in AllIds :
    LET c == Compare(Rope, a, b)
        r == Compare(Rope, b, a)
    IN /\ (a \in DOMAIN byId /\ b \in DOMAIN byId) => (c.ok /\ c.cmp = 0 - r.cmp)
       /\ (a \in DOMAIN byId /\ a = b) => c = [cmp |-> 0, ok |-> TRUE]
       /\ (a \notin DOMAIN byId \/ b \notin DOMAIN byId) => c = [cmp |-> 0, ok |-> FALSE]

\* two live entries of different height (so one call swaps and the other does
\* not) with opposite results, next to an absent id
C14_Witness ==
  \E a \in DOMAIN byId : \E b \in DOMAIN byId : \E x \in AllIds \ DOMAIN byId :
    /\ Len(nodes[byId[a]].levels) < Len(nodes[byId[b]].levels)
    /\ a # zeroId /\ b # zeroId
    /\ Compare(Rope, a, b).cmp = 1
    /\ Compare(Rope, b, a).cmp = 0 - 1
    /\ ~Compare(Rope, a, x).ok

\* --------------------------------------------------- ByPosition properties
\* the stored len of a live id
LenOf(R, id) == R.nodes[R.byId[id]].dl.Len

\* ---- C15: for every position p with 0 <= p <= Len() and either value of
\* biasAfter, ByPosition(p, biasAfter) returns (id, offset) where id is live,
\* 0 <= offset <= len(id) and Find(id) - offset = p
C15_ByPositionInvertsFind ==
  \A p \in 0..RopeLen(Rope) : \A biasAfter \in BOOLEAN :
    LET r == ByPosition(Rope, p, biasAfter)
    IN /\ r.id \in DOMAIN byId
       /\ 0 <= r.offset
       /\ r.offset <= LenOf(Rope, r.id)
       /\ Find(Rope, r.id) - r.offset = p

\* ---- C16 as stated: for every live id X (zero-length entries and the zero id
\* included), ByPosition(Find(X), false) returns (X, 0)
C16_AsStated ==
  \A x \in DOMAIN byId :
    ByPosition(Rope, Find(Rope, x), FALSE) = [id |-> x, offset |-> 0]

\* ---- C17 as stated: for every p in [0, Len()] that is not the Find value of a
\* live zero-length entry, ByPosition(p, false) and ByPosition(p, true) return
\* the same (id, offset)
C17_AsStated ==
  \A p \in 0..RopeLen(Rope) :
    (~\E z \in DOMAIN byId : LenOf(Rope, z) = 0 /\ Find(Rope, z) = p) =>
      ByPosition(Rope, p, FALSE) = ByPosition(Rope, p, TRUE)

\* ---- C16, amended: for every live id X, ByPosition(Find(X), false) returns
\* (Y, 0) where Y is the first entry in sequence order whose Find value is that
\* of X; so it returns (X, 0) when X is the zero id or has len > 0
C16_ByPositionOfFind ==
  \A x \in DOMAIN byId :
    LET ids == IdSeq(Rope)
        same == {k \in DOMAIN ids : Find(Rope, ids[k]) = Find(Rope, x)}
        first == CHOOSE k \in same : \A m \in same : k <= m
        r == ByPosition(Rope, Find(Rope, x), FALSE)
    IN /\ r = [id |-> ids[first], offset |-> 0]
       /\ (x = zeroId \/ LenOf(Rope, x) > 0) => r.id = x

\* an entry of len 1, then one of len 0, then one of len 2: the lookups at the
\* three Find values give the first, the first again, and the third entry
C16_Witness ==
  LET es == EntrySeq(Rope)
  IN /\ Len(es) = 4
     /\ es[2].Len = 1 /\ es[3].Len = 0 /\ es[4].Len = 2
     /\ ByPosition(Rope, Find(Rope, es[2].Id), FALSE) = [id |-> es[2].Id, offset |-> 0]
     /\ ByPosition(Rope, Find(Rope, es[3].Id), FALSE) = [id |-> es[2].Id, offset |-> 0]
     /\ ByPosition(Rope, Find(Rope, es[4].Id), FALSE) = [id |-> es[4].Id, offset |-> 0]

\* ---- C17, amended: ByPosition(p, false) and ByPosition(p, true) can differ
\* only at entry boundaries: for every p in [0, Len()] that is not the Find value
\* of any live entry (the zero entry included), the two calls return the same
\* (id, offset)
C17_BiasOnlyAtBoundaries ==
  \A p \in 0..RopeLen(Rope) :
    (~\E z \in DOMAIN byId : Find(Rope, z) = p) =>
      ByPosition(Rope, p, FALSE) = ByPosition(Rope, p, TRUE)

\* an entry of len 1 followed by one of len 2: at position 2, inside the second,
\* both lookups give (second, 1); at position 1, the boundary, they differ
C17_Witness ==
  LET es == EntrySeq(Rope)
  IN /\ Len(es) = 3
     /\ es[2].Len = 1 /\ es[3].Len = 2
     /\ ByPosition(Rope, 2, FALSE) = [id |-> es[3].Id, offset |-> 1]
     /\ ByPosition(Rope, 2, TRUE) = [id |-> es[3].Id, offset |-> 1]
     /\ ByPosition(Rope, 1, FALSE) = [id |-> es[2].Id, offset |-> 0]
     /\ ByPosition(Rope, 1, TRUE) = [id |-> es[3].Id, offset |-> 2]

\* ------------------------------------------------------------ zero entry
\* ---- C18: in every reachable state the zero entry is live, first in sequence
\* order and of length 0; no Splice or Delete removes it or lists it in removed
\* (not even Delete(A, zeroId)), and a Splice whose insertId is the zero id
\* fails and changes nothing
C18_ZeroEntryStays ==
  /\ zeroId \in DOMAIN byId
  /\ byId[zeroId] = HeadAddr
  /\ IdSeq(Rope)[1] = zeroId
  /\ \A k \in 2..Len(IdSeq(Rope)) : IdSeq(Rope)[k] # zeroId
  /\ LenOf(Rope, zeroId) = 0
  /\ Find(Rope, zeroId) = 0
  /\ \A a \in SpliceArgs :
       LET res == Result(a)
       IN /\ zeroId \notin RemovedIds(res.removed)
          /\ zeroId \in DOMAIN res.R.byId
          /\ res.R.byId[zeroId] = HeadAddr
          /\ a.insertId = zeroId =>
               (res.err # ErrNil /\ res.removed = <<>> /\ res.R = Rope)

\* two entries: Delete(first, zeroId) removes the second and Delete(second,
\* zeroId) removes nothing, neither lists the zero entry, and an insert of the
\* zero id after the first entry is refused with ErrIdExists
C18_Witness ==
  LET ids == IdSeq(Rope)
  IN /\ Len(ids) = 3
     /\ Delete(Rope, ids[2], zeroId).err = ErrNil
     /\ RemovedIds(Delete(Rope, ids[2], zeroId).removed) = {ids[3]}
     /\ Delete(Rope, ids[3], zeroId).removed = <<>>
     /\ IdSeq(Delete(Rope, ids[2], zeroId).R) = <<zeroId, ids[2]>>
     /\ Insert(Rope, ids[2], zeroId, "s1", 1).err = ErrIdExists

\* --------------------------------------------------------- no-op splice
\* ---- C19: for every live id A, Splice(A, &A, nil, _) returns an empty removed
\* list and no error and leaves the sequence, Len(), Count(), LastId(), every
\* link and subtreesize, the free pool and every iterator cursor as they were
C19_SpliceToSelfIsNoOp ==
  \A A \in DOMAIN byId : \A data \in Payloads :
    LET res == Splice(Rope, A, A, NoId, data, 1)
    IN /\ res.err = ErrNil
       /\ res.removed = <<>>
       /\ res.R.nodes = nodes
       /\ res.R.byId = byId
       /\ res.R.len = len
       /\ res.R.height = height
       /\ res.R.nodePool = nodePool
       /\ res.R.lastId = lastId
       /\ \A i \in IterIds : iters[i].pc = "paused" =>
            NextYield(res.R, iters[i]) = NextYield(Rope, iters[i])

\* one entry with an iterator paused on it and a node in the pool:
\* Splice(entry, &entry) changes nothing, where Splice(0, &entry) would delete
C19_Witness ==
  \E i \in IterIds :
    LET ids == IdSeq(Rope)
    IN /\ Len(ids) = 2
       /\ OnLive(i) /\ nodes[iters[i].e].id = ids[2]
       /\ Len(nodePool) > 0
       /\ Splice(Rope, ids[2], ids[2], NoId, ZeroData, 1).R = Rope
       /\ Len(Splice(Rope, zeroId, ids[2], NoId, ZeroData, 1).removed) = 1

\* ------------------------------------------------------- cursor validity
\* ---- C20: between operations, for every paused iterator, the node its cursor
\* targets (the node it will resume from) is a live entry or the zero entry,
\* never a removed, pooled or recycled node
C20_CursorTargetsLive ==
  \A i \in IterIds :
    iters[i].pc = "paused" =>
      /\ ResumeNode(nodes, iters[i]) \in Range(byId)
      /\ \A k \in DOMAIN nodePool : nodePool[k] # ResumeNode(nodes, iters[i])

\* ------------------------------------------------------ delivered entries
\* what the next pull of iterator i does in this state
Pull(i) ==
  IF iters[i].pc = "ready" THEN FirstPull(Rope, iters[i]) ELSE NextPull(Rope, iters[i])

\* ---- C21: every pair an iterator delivers is, at the moment it is delivered,
\* a live entry of the rope with exactly that stored len and payload, for any
\* interleaving of splices and pulls of one or more iterators; it is never a
\* removed or pooled node
C21_DeliversLiveEntries ==
  \A i \in IterIds :
    (iters[i].pc \in {"ready", "paused"} /\ Pull(i).it.pc = "paused") =>
      LET y == Pull(i).it
      IN /\ y.out.id \in DOMAIN byId
         /\ byId[y.out.id] = y.e
         /\ y.out.dl = nodes[byId[y.out.id]].dl
         /\ \A k \in DOMAIN nodePool : nodePool[k] # y.e

\* ------------------------------------------------------------------- pool
\* the calls of Splice checked against the pool: any live anchor, any id or
\* none to delete to, and a new entry with the next id or none
PoolArgs ==
  {a \in [afterId : DOMAIN byId, deleteUntilId : PoolIds \cup {NoId},
          insertId : {NoId} \cup (IF PoolIds \ DOMAIN byId = {} THEN {}
                                  ELSE {FreshId(Rope)})] :
     a.insertId = NoId \/ Len(nodePool) > 0 \/ FreeAddrs(Rope) # {}}

Cleared(n) ==
  /\ n.id = zeroId
  /\ n.dl = ZeroDataLen
  /\ \A l \in DOMAIN n.levels : n.levels[l] = ZeroLevel

\* ---- C22: a node removed while its cursor count is non-zero is never put in
\* the pool and never reused as the node of a later-inserted entry; a removed
\* node with no cursor is pooled only while the pool holds fewer than 8 nodes,
\* and its id, payload and links are cleared when it is pooled
C22_PoolRules ==
  /\ Len(nodePool) <= poolSize
  /\ \A k \in DOMAIN nodePool :
       /\ nodes[nodePool[k]].iterRef = NoRef
       /\ nodePool[k] \notin Range(byId)
       /\ nodes[nodePool[k]].id = zeroId /\ nodes[nodePool[k]].dl = ZeroDataLen
  /\ \A a \in PoolArgs :
       LET res == Splice(Rope, a.afterId, a.deleteUntilId, a.insertId, ZeroData, 1)
           node(k) == byId[res.removed[k].Id]
           free(k) == nodes[node(k)].iterRef = NoRef
           pooled(k) == /\ free(k)
                        /\ Len(nodePool)
                             + Cardinality({j \in 1..(k - 1) : free(j)}) < poolSize
           all == [k \in DOMAIN res.removed |-> node(k)]
           expected == nodePool \o SelectSeq(all, LAMBDA e :
                         \E k \in DOMAIN res.removed : node(k) = e /\ pooled(k))
       IN /\ res.err = ErrNil
          /\ \A k \in DOMAIN res.removed :
               /\ (pooled(k) /\ node(k) \in Range(res.R.nodePool)) =>
                    Cleared(res.R.nodes[node(k)])
               /\ ~pooled(k) => /\ node(k) \notin Range(res.R.nodePool)
                                /\ node(k) \notin Range(res.R.byId)
          /\ a.insertId = NoId => res.R.nodePool = expected
          /\ a.insertId # NoId =>
               IF expected = <<>>
                 THEN /\ res.R.byId[a.insertId] \in FreeAddrs(Rope)
                      /\ res.R.nodePool = <<>>
                 ELSE /\ res.R.byId[a.insertId] = expected[Len(expected)]
                      /\ res.R.nodePool = SubSeq(expected, 1, Len(expected) - 1)

\* a full pool, two live entries and an iterator paused on the first of them:
\* deleting both pools neither (one has a cursor, the other finds the pool full),
\* and a replacing splice takes the new entry's node from the pool
C22_Witness ==
  \E i \in IterIds :
    LET ids == IdSeq(Rope)
    IN /\ Len(nodePool) = poolSize
       /\ Len(ids) = 3
       /\ OnLive(i) /\ nodes[iters[i].e].id = ids[2]
       /\ Len(Delete(Rope, zeroId, ids[3]).removed) = 2
       /\ Delete(Rope, zeroId, ids[3]).R.nodePool = nodePool
       /\ Splice(Rope, zeroId, ids[3], FreshId(Rope), ZeroData, 1).R.byId[FreshId(Rope)]
            = nodePool[poolSize]

\* ---- C23: Splice(A, &X, nil, _) with A live, X # A and X not after A (X
\* absent, X before A, or X the zero id) returns no error and removes every
\* entry after A through the end of the sequence, in order; afterwards A is
\* the last entry, LastId() = A, and X, if it was live before A, is still live
C23_DeleteRunsToEnd ==
  LET ids == IdSeq(Rope)
      es == EntrySeq(Rope)
  IN \A A \in DOMAIN byId : \A X \in AllIds \ {A} : \A data \in Payloads :
       (X \notin DOMAIN byId \/ Pos(ids, X) < Pos(ids, A)) =>
         LET res == Splice(Rope, A, X, NoId, data, 1)
             after == IdSeq(res.R)
         IN /\ res.err = ErrNil
            /\ res.removed = SubSeq(es, Pos(ids, A) + 1, Len(es))
            /\ after = SubSeq(ids, 1, Pos(ids, A))
            /\ after[Len(after)] = A
            /\ LastId(res.R) = A
            /\ DOMAIN res.R.byId = Members(after)
            /\ res.R.len = SumLen(SubSeq(es, 1, Pos(ids, A)))
            /\ X \in DOMAIN byId => X \in DOMAIN res.R.byId

\* four entries behind the zero entry, LastId not the anchor: deleting from
\* the second one to the first one, which is before it, removes the two
\* entries behind the anchor and leaves the first one live
C23_Witness ==
  LET ids == IdSeq(Rope)
  IN /\ Len(ids) = 4
     /\ lastId # ids[3]
     /\ Len(Delete(Rope, ids[3], ids[2]).removed) = 1
     /\ Len(Delete(Rope, ids[2], zeroId).removed) = 2
     /\ IdSeq(Delete(Rope, ids[2], zeroId).R) = <<zeroId, ids[2]>>
     /\ LastId(Delete(Rope, ids[3], ids[2]).R) = ids[3]
     /\ ids[2] \in DOMAIN Delete(Rope, ids[3], ids[2]).R.byId

\* ---------------------------------------------------------- subtreesize
\* sum of len over the nodes la[from..to] of the list
RECURSIVE LenSum(_, _, _, _)
LenSum(R, la, from, to) ==
  IF from > to THEN 0
  ELSE R.nodes[la[from]].dl.Len + LenSum(R, la, from + 1, to)

\* ---- C24 as stated: after every completed splice, for every level i and every
\* node N that has level i, N.subtreesize[i] is len(N) plus the len of every
\* node strictly between N.prev[i] and N in level-0 order (checked for the
\* nodes behind the zero entry, whose prev[i] is another node)
C24_AsStated ==
  LET la == ListAddrs(Rope)
  IN \A k \in 2..Len(la) : \A l \in DOMAIN nodes[la[k]].levels :
       LET p == Pos(la, nodes[la[k]].levels[l].prev)
       IN nodes[la[k]].levels[l].subtreesize = LenSum(Rope, la, p + 1, k)

\* ---- C24 amended: after every completed splice, for every level i and every
\* node N that has level i (the zero entry included), N.subtreesize[i] is
\* len(N) plus the len of every node strictly between N and N.next[i] in
\* level-0 order, through the end of the sequence when N.next[i] is absent
C24_SubtreeSizeCoversForward ==
  LET la == ListAddrs(Rope)
  IN /\ Len(nodes[HeadAddr].levels) = height
     /\ \A k \in DOMAIN la : \A l \in DOMAIN nodes[la[k]].levels :
          LET nx == nodes[la[k]].levels[l].next
              to == IF nx = NIL THEN Len(la) ELSE Pos(la, nx) - 1
          IN /\ nx # NIL => (Pos(la, nx) > k /\ Len(nodes[nx].levels) >= l)
             /\ nodes[la[k]].levels[l].subtreesize = LenSum(Rope, la, k, to)

\* a node with two levels between two nodes with one: its upper link counts
\* itself and the node behind it, not the node before it; the head's upper
\* link counts the node before it
C24_Witness ==
  LET la == ListAddrs(Rope)
  IN /\ Len(la) = 4
     /\ height = 2
     /\ Len(nodes[la[2]].levels) = 1 /\ nodes[la[2]].dl.Len = 2
     /\ Len(nodes[la[3]].levels) = 2 /\ nodes[la[3]].dl.Len = 1
     /\ Len(nodes[la[4]].levels) = 1 /\ nodes[la[4]].dl.Len = 1
     /\ nodes[la[3]].levels[2].prev = HeadAddr
     /\ nodes[la[3]].levels[2].subtreesize = 2
     /\ nodes[HeadAddr].levels[2].subtreesize = 2

====
